---- MODULE Spec2Model ----
(***************************************************************************)
(* Model of the file-backed configuration of the CLI                       *)
(* (src/src/config_from_file.rs, src/src/config_map.rs).                   *)
(*                                                                         *)
(* The Document is an ordered tree of key -> item nodes, as toml_edit      *)
(* keeps it: an item is a string value, another (non-string) value, or a   *)
(* table; a table is an ordered list of entries and carries the `dotted`   *)
(* flag toml_edit sets on tables that come from dotted keys                *)
(* (hosts.h1.token = "abc").  Operators carry the names of the functions   *)
(* they are translated from.                                               *)
(*                                                                         *)
(* Spec has the operations of the Config interface on the Document,        *)
(* FileSpec the load of the two files and write(), EnvSpec the environment *)
(* override layer around the FileConfig, CmdSpec the runs of the instance  *)
(* commands (src/src/cmd_instance.rs).                                     *)
(***************************************************************************)
EXTENDS Integers, Sequences, FiniteSets, TLC

VARIABLES root, last, files, env, cmd

vars == <<root, last, files, env, cmd>>

\* the state outside the in-memory Config: the files, the process
\* environment, the command that runs
outside == <<files, env, cmd>>

(***************************************************************************)
(* Bounds of the model.                                                    *)
(***************************************************************************)
\* most nodes (tables and values, the root table included) the Document holds
MaxSize == 7

\* non-empty host names the operations are called with
HostNames == {"h1", "h2"}

\* host names including the empty one, which addresses the root Document
HostArgs == HostNames \cup {""}

\* (key, value) pairs set is called with on a host and on the root Document
HostSettings == {<<"default", "true">>, <<"default", "abc">>, <<"token", "abc">>}

RootSettings == {<<"token", "abc">>, <<"hosts", "abc">>}

\* keys the read operations are called with: host names are keys too
AllKeys == {"default", "token", "hosts"} \cup HostNames

\* keys the get action is called with
GetKeys == {"default", "h1"}

(***************************************************************************)
(* toml_edit items and tables.                                             *)
(***************************************************************************)
Str(s) == [t |-> "str", v |-> s, dotted |-> FALSE, items |-> <<>>]

Other == [t |-> "other", v |-> "", dotted |-> FALSE, items |-> <<>>]

None == [t |-> "none", v |-> "", dotted |-> FALSE, items |-> <<>>]

Tbl(d, es) == [t |-> "table", v |-> "", dotted |-> d, items |-> es]

\* an entry of a table; `decor` holds the comment and blank lines the text
\* has in front of the entry (toml_edit keeps them as the prefix of the key,
\* or of the table header).  Table::insert makes a fresh key without any.
ED(k, it, d) == [key |-> k, item |-> it, decor |-> d]

E(k, it) == ED(k, it, <<>>)

\* toml_edit::Table::new()
NewTable == Tbl(FALSE, <<>>)

\* Item::as_table: Some only for Item::Table
as_table(it) == it.t = "table"

KeysOf(tbl) == [i \in 1..Len(tbl.items) |-> tbl.items[i].key]

HasKey(tbl, k) == \E i \in 1..Len(tbl.items) : tbl.items[i].key = k

\* Table::get
TableGet(tbl, k) ==
    IF HasKey(tbl, k)
    THEN tbl.items[CHOOSE i \in 1..Len(tbl.items) : tbl.items[i].key = k].item
    ELSE None

\* Table::insert: an existing key keeps its position, a new key is appended
TableInsert(tbl, k, it) ==
    IF HasKey(tbl, k)
    THEN [tbl EXCEPT !.items =
            [i \in 1..Len(tbl.items) |->
                IF tbl.items[i].key = k THEN E(k, it) ELSE tbl.items[i]]]
    ELSE [tbl EXCEPT !.items = Append(tbl.items, E(k, it))]

\* Table::remove_entry: the remaining entries keep their order
TableRemove(tbl, k) ==
    [tbl EXCEPT !.items = SelectSeq(tbl.items, LAMBDA e : e.key # k)]

\* number of nodes of an item, counting its first n children
RECURSIVE SizeUpTo(_, _)
SizeUpTo(it, n) ==
    IF n = 0 THEN 1
    ELSE SizeUpTo(it, n - 1) +
         SizeUpTo(it.items[n].item, Len(it.items[n].item.items))

Size(it) == SizeUpTo(it, Len(it.items))

\* Table::get_values collects the values that are visually children of a
\* table: a value counts once, a dotted table is descended into, a table
\* with its own header is skipped.  AppendValues counts what the first n
\* entries of a table contribute.
RECURSIVE AppendValues(_, _)
AppendValues(tbl, n) ==
    IF n = 0 THEN 0
    ELSE LET it == tbl.items[n].item
         IN AppendValues(tbl, n - 1) +
            (IF it.t = "table"
             THEN IF it.dotted THEN AppendValues(it, Len(it.items)) ELSE 0
             ELSE 1)

NumValues(it) ==
    IF it.t = "table"
    THEN IF it.dotted THEN AppendValues(it, Len(it.items)) ELSE 0
    ELSE 1

(***************************************************************************)
(* Results.  Match is Rust's `match` on a Result and Try is its `?`: the   *)
(* error is handed on with the default value of the caller's result type.  *)
(***************************************************************************)
Ok(x) == [ok |-> TRUE, val |-> x, err |-> "none"]

Err(e, dflt) == [ok |-> FALSE, val |-> dflt, err |-> e]

Match(x, F(_), G(_)) == IF x.ok THEN F(x.val) ELSE G(x.err)

Try(x, dflt, F(_)) == IF x.ok THEN F(x.val) ELSE Err(x.err, dflt)

(***************************************************************************)
(* ConfigMap (config_map.rs).                                              *)
(***************************************************************************)
is_empty(map) == Len(map.items) = 0

\* the match of get_string_value on the item found under the key
StringOf(it) ==
    IF it.t = "str" THEN Ok(it.v)
    ELSE IF it.t = "none" THEN Err("KeyNotFound", "")
    ELSE Err("TypeMismatch", "")

get_string_value(map, key) == StringOf(TableGet(map, key))

set_string_value(map, key, value) == TableInsert(map, key, Str(value))

find_entry(map, key) ==
    IF HasKey(map, key) THEN Ok(TableGet(map, key))
    ELSE Err("KeyNotFound", None)

remove_entry(map, key) == TableRemove(map, key)

(***************************************************************************)
(* FileConfig (config_from_file.rs): derived views.                        *)
(***************************************************************************)
NoHostConfig == [host |-> "", map |-> NewTable]

\* get_hosts_table taking a "hosts" key of any shape for an empty table
get_hosts_table_lenient(r) ==
    Match(find_entry(r, "hosts"),
          LAMBDA h : IF as_table(h) THEN Ok(h) ELSE Ok(NewTable),
          LAMBDA e : Ok(NewTable))

get_hosts_table(r) ==
    Match(find_entry(r, "hosts"),
          LAMBDA h : IF as_table(h) THEN Ok(h)
                     ELSE Err("MalformedConfig", NewTable),
          LAMBDA e : Ok(NewTable))

get_aliases_table(r) ==
    Match(find_entry(r, "aliases"),
          LAMBDA a : IF as_table(a) THEN Ok(a)
                     ELSE Err("MalformedConfig", NewTable),
          LAMBDA e : Ok(NewTable))

\* one HostConfig per (keys, value) pair of hosts_table.get_values(): the
\* j-th pair lies under the i-th entry of the table when the first i - 1
\* entries hold fewer than j values and the first i hold at least j; the
\* host is the first key of the path and the map is the hosts table
HostEntriesOf(tbl) ==
    [j \in 1..AppendValues(tbl, Len(tbl.items)) |->
        [host |-> tbl.items[CHOOSE i \in 1..Len(tbl.items) :
                              /\ AppendValues(tbl, i - 1) < j
                              /\ j <= AppendValues(tbl, i)].key,
         map |-> tbl]]

get_host_entries(r) ==
    Try(get_hosts_table(r), <<>>, LAMBDA ht : Ok(HostEntriesOf(ht)))

\* the first HostConfig of the list with the host name
FindHost(hcs, hostname) ==
    IF \E i \in 1..Len(hcs) : hcs[i].host = hostname
    THEN Ok(hcs[CHOOSE i \in 1..Len(hcs) :
                   /\ hcs[i].host = hostname
                   /\ \A j \in 1..(i - 1) : hcs[j].host # hostname])
    ELSE Err("HostNotFound", NoHostConfig)

get_host_config(r, hostname) ==
    Try(get_host_entries(r), NoHostConfig,
        LAMBDA hcs : FindHost(hcs, hostname))

\* the insert into the local copy of the hosts table is dropped with it
make_host_config(r, hostname) ==
    Try(get_hosts_table(r), NoHostConfig,
        LAMBDA ht : Ok([host |-> hostname, map |-> NewTable]))

(***************************************************************************)
(* FileConfig: the Config interface.                                       *)
(***************************************************************************)
NoValue == [value |-> "", source |-> ""]

\* get_with_source reading every key from the Hosts table
get_with_source_hosts(r, hostname, key) ==
    Try(get_hosts_table(r), NoValue,
        LAMBDA ht :
            Try(get_string_value(ht, key), NoValue,
                LAMBDA v : Ok([value |-> v, source |-> "hosts_file"])))

get_with_source(r, hostname, key) ==
    IF hostname = ""
    THEN Try(get_string_value(r, key), NoValue,
             LAMBDA v : Ok([value |-> v, source |-> "config_file"]))
    ELSE Try(get_host_config(r, hostname), NoValue,
             LAMBDA hc :
                 Try(get_string_value(hc.map, key), NoValue,
                     LAMBDA v : Ok([value |-> v, source |-> "hosts_file"])))

get(r, hostname, key) ==
    Try(get_with_source(r, hostname, key), "", LAMBDA x : Ok(x.value))

\* a mutation returns its result and the Document it leaves
Done(r) == [ok |-> TRUE, err |-> "none", root |-> r]

Failed(e, r) == [ok |-> FALSE, err |-> e, root |-> r]

\* `?` inside a mutation: the error is returned and the Document is as it was
TryMut(x, r, F(_)) == IF x.ok THEN F(x.val) ELSE Failed(x.err, r)

\* match x { Ok(v) => v, Err(_) => y? }
OrElse(x, y) == IF x.ok THEN x ELSE y

\* set starting a fresh Hosts table when the "hosts" key cannot be read
set_overwrite(r, hostname, key, value) ==
    IF hostname = "" THEN Done(set_string_value(r, key, value))
    ELSE Done(TableInsert(r, "hosts",
                TableInsert(get_hosts_table_lenient(r).val, hostname,
                    set_string_value(NewTable, key, value))))

set(r, hostname, key, value) ==
    IF hostname = "" THEN Done(set_string_value(r, key, value))
    ELSE TryMut(OrElse(get_host_config(r, hostname),
                       make_host_config(r, hostname)), r,
           LAMBDA hc :
             TryMut(get_hosts_table(r), r,
               LAMBDA ht :
                 Done(TableInsert(r, "hosts",
                        TableInsert(ht, hostname,
                            set_string_value(hc.map, key, value))))))

\* unset_host failing on a host that is not in the table
unset_host_strict(r, hostname) ==
    IF hostname = "" THEN Done(r)
    ELSE TryMut(get_hosts_table(r), r,
           LAMBDA ht :
             IF ~HasKey(ht, hostname) THEN Failed("HostNotFound", r)
             ELSE Done(TableInsert(r, "hosts", TableRemove(ht, hostname))))

\* unset_host without the write-back of the hosts table into the root
unset_host_dropped(r, hostname) ==
    IF hostname = "" THEN Done(r)
    ELSE TryMut(get_hosts_table(r), r, LAMBDA ht : Done(r))

unset_host(r, hostname) ==
    IF hostname = "" THEN Done(r)
    ELSE TryMut(get_hosts_table(r), r,
           LAMBDA ht :
             Done(TableInsert(r, "hosts", TableRemove(ht, hostname))))

hosts(r) == Try(get_hosts_table(r), <<>>, LAMBDA ht : Ok(KeysOf(ht)))

NoHost == [host |-> "", source |-> ""]

\* the loop over the host configs, from the i-th on
RECURSIVE FindDefault(_, _)
FindDefault(hcs, i) ==
    IF i > Len(hcs) THEN Err("NoDefaultHost", NoHost)
    ELSE Try(get_string_value(hcs[i].map, "default"), NoHost,
             LAMBDA v :
                 IF v = "true"
                 THEN Ok([host |-> hcs[i].host, source |-> "hosts_file"])
                 ELSE FindDefault(hcs, i + 1))

\* default_host_with_source without the single-host shortcut
default_host_with_source_scan(r) ==
    Try(hosts(r), NoHost,
        LAMBDA hs :
            IF Len(hs) = 0 THEN Err("NoHostsConfigured", NoHost)
            ELSE Try(get_host_entries(r), NoHost,
                     LAMBDA hcs : FindDefault(hcs, 1)))

default_host_with_source(r) ==
    Try(hosts(r), NoHost,
        LAMBDA hs :
            IF Len(hs) = 0 THEN Err("NoHostsConfigured", NoHost)
            ELSE IF Len(hs) = 1
            THEN Ok([host |-> hs[1], source |-> "hosts_file"])
            ELSE Try(get_host_entries(r), NoHost,
                     LAMBDA hcs : FindDefault(hcs, 1)))

default_host(r) ==
    Try(default_host_with_source(r), "", LAMBDA x : Ok(x.host))

\* the AliasConfig is the aliases table (its parent is the config itself)
aliases(r) == Try(get_aliases_table(r), NewTable, LAMBDA at : Ok(at))

(***************************************************************************)
(* Text of a file: the sequence of its lines, as split at the newlines, so *)
(* a text that ends with a newline ends with an empty segment.  A line is  *)
(* a key/value line with its (dotted) key path, a table header, a comment  *)
(* or blank.                                                               *)
(***************************************************************************)
Blank == [t |-> "blank", path |-> <<>>, item |-> None]

Comment == [t |-> "comment", path |-> <<>>, item |-> None]

KV(p, it) == [t |-> "kv", path |-> p, item |-> it]

Header(p) == [t |-> "header", path |-> p, item |-> None]

\* the key/value lines of the first n entries of a table, as Table::get_values
\* lists them: a dotted table gives the lines of its values under its key,
\* a table with a header gives none
RECURSIVE ValueLines(_, _, _)
ValueLines(tbl, n, p) ==
    IF n = 0 THEN <<>>
    ELSE ValueLines(tbl, n - 1, p) \o
         (IF tbl.items[n].item.t = "table"
          THEN IF tbl.items[n].item.dotted
               THEN ValueLines(tbl.items[n].item,
                               Len(tbl.items[n].item.items),
                               Append(p, tbl.items[n].key))
               ELSE <<>>
          ELSE tbl.items[n].decor \o
               <<KV(Append(p, tbl.items[n].key), tbl.items[n].item)>>)

\* Display of a Document: the table at path p (header, unless it is the
\* root, then its values) followed by the tables nested in its first n
\* entries; dotted tables are not visited, their values are printed with
\* the table they sit in
RECURSIVE Sections(_, _, _)
Sections(tbl, n, p) ==
    IF n = 0
    THEN (IF p = <<>> THEN <<>> ELSE <<Header(p)>>) \o
         ValueLines(tbl, Len(tbl.items), <<>>)
    ELSE Sections(tbl, n - 1, p) \o
         (IF tbl.items[n].item.t = "table" /\ ~tbl.items[n].item.dotted
          THEN tbl.items[n].decor \o
               Sections(tbl.items[n].item, Len(tbl.items[n].item.items),
                        Append(p, tbl.items[n].key))
          ELSE <<>>)

\* every line is written with its newline
Terminated(ls) == IF ls = <<>> THEN <<>> ELSE Append(ls, Blank)

\* Document::to_string
to_string(doc) == Terminated(Sections(doc, Len(doc.items), <<>>))

Lowest(S) == CHOOSE i \in S : \A j \in S : i <= j

Highest(S) == CHOOSE i \in S : \A j \in S : j <= i

Between(txt, S) ==
    IF S = {} THEN <<>> ELSE SubSeq(txt, Lowest(S), Highest(S))

\* str::trim: leading and trailing whitespace is dropped
trim(txt) == Between(txt, {i \in 1..Len(txt) : txt[i] # Blank})

\* the table a line of a text belongs to: that of the last header before it
HeaderPath(txt, S) == IF S = {} THEN <<>> ELSE txt[Highest(S)].path

\* the full key path of a key/value or header line of a text
AbsPath(txt, i) ==
    IF txt[i].t = "header" THEN txt[i].path
    ELSE HeaderPath(txt, {j \in 1..(i - 1) : txt[j].t = "header"}) \o
         txt[i].path

\* the comment and blank lines in front of line i of a text
DecorBefore(txt, i) ==
    SubSeq(txt,
           Highest({0} \cup {j \in 1..(i - 1) : txt[j].t \in {"kv", "header"}})
             + 1,
           i - 1)

\* the table with the entry of key k replaced by (or, when new, extended
\* with) the table sub
WithTable(tbl, k, sub) ==
    IF HasKey(tbl, k)
    THEN [tbl EXCEPT !.items =
            [i \in 1..Len(tbl.items) |->
                IF tbl.items[i].key = k
                THEN ED(k, sub, tbl.items[i].decor) ELSE tbl.items[i]]]
    ELSE [tbl EXCEPT !.items = Append(tbl.items, E(k, sub))]

\* the parser putting an item under the key path p: the first nh tables on
\* the path are tables with a header, the ones after come from a dotted key
RECURSIVE InsertAt(_, _, _, _, _)
InsertAt(tbl, p, it, d, nh) ==
    IF Len(p) = 1
    THEN IF HasKey(tbl, p[1]) THEN tbl
         ELSE [tbl EXCEPT !.items = Append(tbl.items, ED(p[1], it, d))]
    ELSE WithTable(tbl, p[1],
            InsertAt(IF HasKey(tbl, p[1]) THEN TableGet(tbl, p[1])
                     ELSE Tbl(nh = 0, <<>>),
                     Tail(p), it, d, IF nh > 0 THEN nh - 1 ELSE 0))

\* str::parse::<Document>() of the first n lines of a text
RECURSIVE ParseLines(_, _)
ParseLines(txt, n) ==
    IF n = 0 THEN NewTable
    ELSE IF txt[n].t = "kv"
    THEN InsertAt(ParseLines(txt, n - 1), AbsPath(txt, n), txt[n].item,
                  DecorBefore(txt, n), Len(AbsPath(txt, n)) - Len(txt[n].path))
    ELSE IF txt[n].t = "header"
    THEN InsertAt(ParseLines(txt, n - 1), txt[n].path, NewTable,
                  DecorBefore(txt, n), Len(txt[n].path))
    ELSE ParseLines(txt, n - 1)

parse(txt) == ParseLines(txt, Len(txt))

\* the Document a FileConfig is made of at start-up: the config file, with
\* the document of the hosts file as its "hosts" table
Load(c, h) ==
    IF parse(h).items = <<>> THEN parse(c)
    ELSE TableInsert(parse(c), "hosts", parse(h))

\* config_to_string without the removal of the "hosts" key
config_to_string_whole(r) == Ok(trim(to_string(r)))

\* the config file: the Document without its "hosts" key
config_to_string(r) == Ok(trim(to_string(remove_entry(r, "hosts"))))

\* hosts_to_string rendering the Hosts table under a "hosts" key
hosts_to_string_nested(r) ==
    Try(get_hosts_table(r), <<>>,
        LAMBDA ht : Ok(trim(to_string(TableInsert(NewTable, "hosts", ht)))))

\* the hosts file: the Hosts table made a Document of its own
hosts_to_string(r) ==
    Try(get_hosts_table(r), <<>>, LAMBDA ht : Ok(trim(to_string(ht))))

(***************************************************************************)
(* Documents a FileConfig is constructed from: the parsed config file and  *)
(* hosts file.  A host is written with its own header ([hosts.h1]), with   *)
(* dotted keys (hosts.h1.token = "abc"), or is a plain value.              *)
(***************************************************************************)
InitHostItems ==
    { NewTable,
      Tbl(TRUE, <<E("default", Str("true"))>>),
      Tbl(TRUE, <<E("token", Str("abc"))>>),
      Str("abc") }

InitHostLists ==
    {<<>>}
    \cup {<<E(h, it)>> : h \in HostNames, it \in InitHostItems}
    \cup {<<E(hs[1], it1), E(hs[2], it2)>> :
            hs \in {<<"h1", "h2">>, <<"h2", "h1">>},
            it1 \in InitHostItems, it2 \in InitHostItems}

InitHostsTables ==
    {Tbl(FALSE, es) : es \in InitHostLists}
    \cup {Tbl(TRUE, es) :
            es \in {x \in InitHostLists : NumValues(Tbl(TRUE, x)) > 0}}

\* the root "hosts" / "aliases" key: absent, present with a table, or
\* present with something else
InitHosts ==
    {<<>>, <<E("hosts", Str("abc"))>>, <<E("hosts", Other)>>}
    \cup {<<E("hosts", ht)>> : ht \in InitHostsTables}

InitAliases ==
    {<<>>, <<E("aliases", NewTable)>>, <<E("aliases", Str("abc"))>>}

InitRoots ==
    {Tbl(FALSE, h) : h \in InitHosts} \cup {Tbl(FALSE, a) : a \in InitAliases}

NoCall ==
    [op |-> "new", host |-> "", key |-> "", value |-> "",
     ok |-> TRUE, err |-> "none", out |-> <<>>, pre |-> Ok(<<>>)]

\* the texts of the config file and of the hosts file
Files(c, h) == [config |-> c, hosts |-> h]

\* the files are not touched by the operations of this specification
NoFiles == Files(<<>>, <<>>)

\* an environment variable: set or not, and its value
EnvVar(s, v) == [set |-> s, val |-> v]

\* the variable of the organization is not set
NoEnv == EnvVar(FALSE, "")

\* the arguments of a command
Args(name, org, project, description, hostname, memory, cpus, confirm) ==
    [instance |-> name, organization |-> org,
     project |-> project, description |-> description,
     hostname |-> hostname, memory |-> memory, cpus |-> cpus,
     confirm |-> confirm]

\* a command at the start of its run: its arguments, the local variables
\* run() copies them to, and `interactive`, which is ctx.io.can_prompt().
\* The run records the prompts shown, the confirmation typed, whether the
\* API client was made, the requests sent and what went to stdout;
\* `result` is "" until the run returns, then "ok" or the error.
Command(kind, interactive, a) ==
    [kind |-> kind, interactive |-> interactive, args |-> a,
     instance_name |-> a.instance, organization |-> a.organization,
     project_name |-> a.project, description |-> a.description,
     hostname |-> a.hostname, memory |-> a.memory, ncpus |-> a.cpus,
     pc |-> "start", client |-> FALSE, typed |-> <<>>,
     prompts |-> <<>>, requests |-> <<>>, out |-> <<>>, result |-> ""]

\* no command runs
NoCmd == Command("none", FALSE, Args("", "", "", "", "", 0, 0, FALSE))

Init ==
    /\ root \in InitRoots
    /\ last = NoCall
    /\ files = NoFiles
    /\ env = NoEnv
    /\ cmd = NoCmd

(***************************************************************************)
(* One action per operation of the Config interface.  `last` records the   *)
(* call, its outcome and, for a mutation, hosts() as it was before.        *)
(***************************************************************************)
Called(op, h, k, v, ok, err, out, pre) ==
    [op |-> op, host |-> h, key |-> k, value |-> v,
     ok |-> ok, err |-> err, out |-> out, pre |-> pre]

\* a mutation leaves the Document its result carries
Mutate(op, h, k, v, r) ==
    /\ root' = r.root
    /\ last' = Called(op, h, k, v, r.ok, r.err, <<>>, hosts(root))
    /\ UNCHANGED outside

\* a read leaves the Document alone
Read(op, h, k, r) ==
    /\ last' = Called(op, h, k, "", r.ok, r.err, r.val, Ok(<<>>))
    /\ UNCHANGED <<root, outside>>

Set(h, k, v) ==
    /\ Size(set(root, h, k, v).root) <= MaxSize
    /\ Mutate("set", h, k, v, set(root, h, k, v))

UnsetHost(h) == Mutate("unset_host", h, "", "", unset_host(root, h))

Get(h, k) == Read("get", h, k, get(root, h, k))

Hosts == Read("hosts", "", "", hosts(root))

DefaultHost == Read("default_host", "", "", default_host(root))

Aliases == Read("aliases", "", "", aliases(root))

ConfigToString == Read("config_to_string", "", "", config_to_string(root))

HostsToString == Read("hosts_to_string", "", "", hosts_to_string(root))

Next ==
    \/ \E h \in HostNames, kv \in HostSettings : Set(h, kv[1], kv[2])
    \/ \E kv \in RootSettings : Set("", kv[1], kv[2])
    \/ \E h \in HostArgs : UnsetHost(h)
    \/ \E h \in HostArgs, k \in GetKeys : Get(h, k)
    \/ Hosts
    \/ DefaultHost
    \/ Aliases
    \/ ConfigToString
    \/ HostsToString

Spec == Init /\ [][Next]_vars

(***************************************************************************)
(* write(): the Document is written to the two files.  `fail` names the   *)
(* file whose write fails ("none" when both succeed).                      *)
(***************************************************************************)
Wrote(fs) == [ok |-> TRUE, err |-> "none", files |-> fs]

\* `?` inside write: the error is returned, the files are as they are by then
TryWrite(x, fs, F(_)) ==
    IF x.ok THEN F(x.val) ELSE [ok |-> FALSE, err |-> x.err, files |-> fs]

\* config_file::write_config_file: the file holds the content, or the write
\* fails and the file is as it was
write_config_file(fs, name, content, fail) ==
    IF fail = name THEN Err("IoFailure", fs)
    ELSE Ok([fs EXCEPT ![name] = content])

\* write with the hosts file written before the config file
write_hosts_first(r, fs, fail) ==
    TryWrite(hosts_to_string(r), fs, LAMBDA h :
      TryWrite(write_config_file(fs, "hosts", h, fail), fs, LAMBDA fs1 :
        TryWrite(config_to_string(r), fs1, LAMBDA c :
          TryWrite(write_config_file(fs1, "config", c, fail), fs1,
                   LAMBDA fs2 : Wrote(fs2)))))

write(r, fs, fail) ==
    TryWrite(config_to_string(r), fs, LAMBDA c :
      TryWrite(write_config_file(fs, "config", c, fail), fs, LAMBDA fs1 :
        TryWrite(hosts_to_string(r), fs1, LAMBDA h :
          TryWrite(write_config_file(fs1, "hosts", h, fail), fs1,
                   LAMBDA fs2 : Wrote(fs2)))))

\* texts of a config file: empty, a setting with and without the final
\* newline, with a comment, with a blank line in front, with a table
ConfigTexts ==
    { <<>>,
      <<KV(<<"token">>, Str("abc"))>>,
      <<KV(<<"token">>, Str("abc")), Blank>>,
      <<Comment, KV(<<"token">>, Str("abc")), Blank>>,
      <<Blank, KV(<<"token">>, Str("abc")), Blank, Blank>>,
      <<KV(<<"token">>, Str("abc")), Comment, Header(<<"aliases">>),
        KV(<<"co">>, Str("abc")), Blank>> }

\* texts of a hosts file: empty, a host with its header or with dotted
\* keys, two hosts
HostsTexts ==
    { <<>>,
      <<Header(<<"h1">>), KV(<<"token">>, Str("abc"))>>,
      <<Header(<<"h1">>), KV(<<"token">>, Str("abc")), Blank>>,
      <<KV(<<"h1", "token">>, Str("abc")), Blank>>,
      <<Comment, Header(<<"h2">>), KV(<<"default">>, Str("true")),
        Blank, Header(<<"h1">>), Comment, KV(<<"token">>, Str("abc")),
        Blank>> }

\* (host, key, value) of the edits made between load and write
FileEdits ==
    {<<"h2", "token", "abc">>, <<"", "hosts", "abc">>, <<"", "editor", "abc">>}

FileInit ==
    /\ files \in {Files(c, h) : c \in ConfigTexts, h \in HostsTexts}
    /\ root = Load(files.config, files.hosts)
    /\ last = NoCall
    /\ env = NoEnv
    /\ cmd = NoCmd

\* last.key names the file whose write failed
Write(fail) ==
    /\ files' = write(root, files, fail).files
    /\ last' = Called("write", "", fail, "",
                      write(root, files, fail).ok, write(root, files, fail).err,
                      <<>>, Ok(<<>>))
    /\ UNCHANGED <<root, env, cmd>>

FileNext ==
    \/ \E fail \in {"none", "config", "hosts"} : Write(fail)
    \/ \E e \in FileEdits : Set(e[1], e[2], e[3])
    \/ UnsetHost("h1")

FileSpec == FileInit /\ [][FileNext]_vars

(***************************************************************************)
(* The Environment Override Layer (EnvConfig): a Config that wraps the     *)
(* FileConfig and answers the override-eligible keys from the process      *)
(* environment when the variable is set and not empty.                     *)
(***************************************************************************)
\* override-eligible keys; the organization is read from OXIDE_ORG
EnvKeys == {"organization"}

env_get_with_source(e, r, hostname, key) ==
    IF key \in EnvKeys /\ e.set /\ e.val # ""
    THEN Ok([value |-> e.val, source |-> "environment"])
    ELSE get_with_source(r, hostname, key)

env_get(e, r, hostname, key) ==
    Try(env_get_with_source(e, r, hostname, key), "", LAMBDA x : Ok(x.value))

\* what the document holds under the organization key, if anything
EnvRoots ==
    {Tbl(FALSE, es) :
        es \in { <<>>,
                 <<E("organization", Str("other"))>>,
                 <<E("organization", Str("acme"))>>,
                 <<E("organization", Other)>>,
                 <<E("token", Str("abc"))>>,
                 <<E("token", Str("abc")), E("organization", Str("other"))>> }}

EnvValues == {NoEnv, EnvVar(TRUE, ""), EnvVar(TRUE, "acme")}

\* keys the two get operations are called with
EnvGetKeys == {"organization", "token", "editor"}

EnvInit ==
    /\ root \in EnvRoots
    /\ env \in EnvValues
    /\ last = NoCall
    /\ files = NoFiles
    /\ cmd = NoCmd

\* get through the layer
EnvGet(h, k) == Read("env_get", h, k, env_get(env, root, h, k))

EnvNext ==
    \/ \E k \in EnvGetKeys : EnvGet("", k)
    \/ \E k \in EnvGetKeys : Get("", k)
    \/ \E v \in {"other", "acme"} : Set("", "organization", v)

EnvSpec == EnvInit /\ [][EnvNext]_vars

(***************************************************************************)
(* The commands (cmd_instance.rs; delete as the macro generates it,        *)
(* macros/impl/tests/gen/routes.rs).  A run goes through the steps of      *)
(* run(): the checks of the arguments, the prompts, the API client, the    *)
(* request.  A prompt is answered or fails, and so do the calls of the API.*)
(***************************************************************************)
Finish(c, res) == [c EXCEPT !.pc = "done", !.result = res]

Prompted(c, label) == [c EXCEPT !.prompts = Append(@, label)]

Request(op, c, name, description, hostname) ==
    [op |-> op, organization |-> c.organization, project |-> c.project_name,
     name |-> name, description |-> description, hostname |-> hostname,
     memory |-> c.memory, ncpus |-> c.ncpus]

Sent(c, req) == [c EXCEPT !.requests = Append(@, req)]

\* the checks of create with memory looked at before cpus
create_check_memory_first(c) ==
    IF c.interactive THEN ""
    ELSE IF c.instance_name = ""
    THEN "[instance_name] required in non-interactive mode"
    ELSE IF c.organization = ""
    THEN "--organization,-o required in non-interactive mode"
    ELSE IF c.project_name = ""
    THEN "--project,-p required in non-interactive mode"
    ELSE IF c.description = ""
    THEN "--description,-D required in non-interactive mode"
    ELSE IF c.memory = 0
    THEN "--memory,m required in non-interactive mode"
    ELSE IF c.ncpus = 0
    THEN "--cpus,-c required in non-interactive mode"
    ELSE ""

\* the checks at the head of CmdInstanceCreate::run: the error of the first
\* one that fails, "" when none does
create_check(c) ==
    IF c.interactive THEN ""
    ELSE IF c.instance_name = ""
    THEN "[instance_name] required in non-interactive mode"
    ELSE IF c.organization = ""
    THEN "--organization,-o required in non-interactive mode"
    ELSE IF c.project_name = ""
    THEN "--project,-p required in non-interactive mode"
    ELSE IF c.description = ""
    THEN "--description,-D required in non-interactive mode"
    ELSE IF c.ncpus = 0
    THEN "--cpus,-c required in non-interactive mode"
    ELSE IF c.memory = 0
    THEN "--memory,m required in non-interactive mode"
    ELSE ""

\* the hostname of the request is always the instance name
request_hostname_name(c) == c.instance_name

\* the hostname of the create request
request_hostname(c) ==
    IF c.hostname = "" THEN c.instance_name ELSE c.hostname

create_request(c) ==
    Request("create", c, c.instance_name, c.description, request_hostname(c))

\* the guard of stop, reboot and delete is never taken
confirm_required_never(c) == FALSE

\* the guard at the head of stop, reboot and delete
confirm_required(c) == ~c.interactive /\ ~c.args.confirm

\* format!("{}/{}", organization, project), kept as its two parts
full_name(c) == <<c.organization, c.project_name>>

\* what the confirmation prompt names, and what its validator accepts
confirm_prompt(c) ==
    <<"Type", c.instance_name, "to confirm",
      IF c.kind = "delete" THEN "deletion" ELSE c.kind>>

confirm_expected(c) ==
    IF c.kind = "delete" THEN <<c.instance_name>> ELSE full_name(c)

\* input.trim(): the blanks around what was typed are dropped
input_trim(t) == Between(t, {i \in 1..Len(t) : t[i] # " "})

\* the validator of the confirmation prompt
confirm_valid(c, t) == input_trim(t) = confirm_expected(c)

\* what is typed at a confirmation prompt: the name the prompt shows, the
\* organization and project, something else, with or without blanks around
ConfirmInputs(c) ==
    {<<c.instance_name>>, <<" ", c.instance_name, " ">>,
     full_name(c), <<" ">> \o full_name(c), <<"other">>}

\* answers to the prompts of create
TextAnswers ==
    [organization |-> {"org"}, project_name |-> {"proj"},
     instance_name |-> {"vm"}, description |-> {"d"},
     hostname |-> {"web"}]

NumberAnswers == {0, 2}

CreateCommands ==
    {Command("create", i, Args(n, o, p, d, h, m, c, FALSE)) :
        i \in BOOLEAN, n \in {"", "vm"}, o \in {"", "org"},
        p \in {"", "proj"}, d \in {"", "d"}, h \in {"", "host"},
        m \in {0, 1}, c \in {0, 1}}

ConfirmCommands ==
    {Command(k, i, Args("vm", "org", "proj", "", "", 0, 0, cf)) :
        k \in {"stop", "reboot", "delete"}, i \in BOOLEAN, cf \in BOOLEAN}

CmdInit ==
    /\ cmd \in CreateCommands \cup ConfirmCommands
    /\ root = NewTable
    /\ last = NoCall
    /\ files = NoFiles
    /\ env = NoEnv

\* a step of the command that runs
Step(kind, pc, c) ==
    /\ cmd.kind \in kind
    /\ cmd.pc = pc
    /\ cmd' = c
    /\ UNCHANGED <<root, last, files, env>>

\* a prompt for the local variable `field`, shown when `needed`: it is
\* answered, or it fails
Ask(pc, needed, label, field, answers, next) ==
    \/ /\ needed
       /\ \E a \in answers :
            Step({"create"}, pc,
                 [Prompted(cmd, label) EXCEPT ![field] = a, !.pc = next])
    \/ /\ needed
       /\ Step({"create"}, pc, Finish(Prompted(cmd, label), "prompt failed"))
    \/ /\ ~needed
       /\ Step({"create"}, pc, [cmd EXCEPT !.pc = next])

CreateStart ==
    Step({"create"}, "start",
         IF create_check(cmd) # "" THEN Finish(cmd, create_check(cmd))
         ELSE [cmd EXCEPT !.pc = "organization"])

CreateOrganization ==
    Ask("organization", cmd.organization = "", "Project organization:",
        "organization", TextAnswers.organization, "client")

\* ctx.api_client("")?
ApiClient ==
    \/ Step({"create", "stop", "reboot", "delete"}, "client",
            [cmd EXCEPT !.client = TRUE,
                        !.pc = IF cmd.kind = "create" THEN "project"
                               ELSE "confirm"])
    \/ Step({"create", "stop", "reboot", "delete"}, "client",
            Finish(cmd, "api client failed"))

\* the projects of the organization are fetched and one is selected
CreateProject ==
    \/ /\ cmd.project_name = ""
       /\ \E a \in TextAnswers.project_name :
            Step({"create"}, "project",
                 [Prompted(Sent(cmd, Request("get_projects", cmd, "", "", "")),
                           "Select project:")
                    EXCEPT !.project_name = a, !.pc = "instance_name"])
    \/ /\ cmd.project_name = ""
       /\ Step({"create"}, "project",
               Finish(Sent(cmd, Request("get_projects", cmd, "", "", "")),
                      "request failed"))
    \/ /\ cmd.project_name = ""
       /\ Step({"create"}, "project",
               Finish(Prompted(Sent(cmd, Request("get_projects", cmd,
                                                 "", "", "")),
                               "Select project:"),
                      "prompt failed"))
    \/ /\ cmd.project_name # ""
       /\ Step({"create"}, "project", [cmd EXCEPT !.pc = "instance_name"])

\* the other prompts sit inside `if instance_name.is_empty()`
CreateInstanceName ==
    Ask("instance_name", cmd.instance_name = "", "Instance name:",
        "instance_name", TextAnswers.instance_name,
        IF cmd.instance_name = "" THEN "description" ELSE "post")

CreateDescription ==
    Ask("description", cmd.description = "", "Instance description:",
        "description", TextAnswers.description, "hostname")

CreateHostname ==
    Ask("hostname", cmd.hostname = "", "Instance hostname:",
        "hostname", TextAnswers.hostname, "memory")

CreateMemory ==
    Ask("memory", cmd.memory = 0, "Instance memory:",
        "memory", NumberAnswers, "ncpus")

CreateCpus ==
    Ask("ncpus", cmd.ncpus = 0, "Instance CPUs:",
        "ncpus", NumberAnswers, "post")

CreatePost ==
    \/ Step({"create"}, "post",
            Finish([Sent(cmd, create_request(cmd))
                      EXCEPT !.out = Append(@, "Successfully created instance")],
                   "ok"))
    \/ Step({"create"}, "post",
            Finish(Sent(cmd, create_request(cmd)), "request failed"))

ConfirmStart ==
    Step({"stop", "reboot", "delete"}, "start",
         IF confirm_required(cmd)
         THEN Finish(cmd, "--confirm required when not running interactively")
         ELSE [cmd EXCEPT !.pc = "client"])

\* the prompt is shown until what is typed passes its validator
ConfirmPrompt ==
    \/ /\ ~cmd.args.confirm
       /\ \E t \in ConfirmInputs(cmd) :
            Step({"stop", "reboot", "delete"}, "confirm",
                 [cmd EXCEPT !.prompts = <<confirm_prompt(cmd)>>,
                             !.typed = t,
                             !.pc = IF confirm_valid(cmd, t)
                                    THEN "request" ELSE "confirm"])
    \/ /\ ~cmd.args.confirm
       /\ Step({"stop", "reboot", "delete"}, "confirm",
               Finish([cmd EXCEPT !.prompts = <<confirm_prompt(cmd)>>],
                      "prompt failed"))
    \/ /\ cmd.args.confirm
       /\ Step({"stop", "reboot", "delete"}, "confirm",
               [cmd EXCEPT !.pc = "request"])

ConfirmRequest ==
    \/ Step({"stop", "reboot", "delete"}, "request",
            Finish([Sent(cmd, Request(cmd.kind, cmd, cmd.instance_name, "", ""))
                      EXCEPT !.out = Append(@, "done")],
                   "ok"))
    \/ Step({"stop", "reboot", "delete"}, "request",
            Finish(Sent(cmd, Request(cmd.kind, cmd, cmd.instance_name, "", "")),
                   "request failed"))

CmdNext ==
    \/ CreateStart
    \/ CreateOrganization
    \/ ApiClient
    \/ CreateProject
    \/ CreateInstanceName
    \/ CreateDescription
    \/ CreateHostname
    \/ CreateMemory
    \/ CreateCpus
    \/ CreatePost
    \/ ConfirmStart
    \/ ConfirmPrompt
    \/ ConfirmRequest

CmdSpec == CmdInit /\ [][CmdNext]_vars

(***************************************************************************)
(* Properties.                                                             *)
(***************************************************************************)
InSeq(x, q) == \E i \in 1..Len(q) : q[i] = x

\* the Host Entry stored under h (None when there is none)
EntryOf(r, h) == TableGet(get_hosts_table(r).val, h)

KeySet(it) == {it.items[i].key : i \in 1..Len(it.items)}

\* the Host Entry carries the flag default = "true"
Flagged(it) == it.t = "table" /\ get_string_value(it, "default") = Ok("true")

\* the Hosts table is there and every Host Entry in it is a table
HostsAreTables(r) ==
    LET ht == get_hosts_table(r)
    IN /\ HasKey(r, "hosts") /\ ht.ok
       /\ \A i \in 1..Len(ht.val.items) : ht.val.items[i].item.t = "table"

HostSetStep == last'.op = "set" /\ last'.host # ""

RootSetStep == last'.op = "set" /\ last'.host = ""

UnsetStep == last'.op = "unset_host" /\ last'.host # ""

\* C1: after set(h, k, v) on a non-empty host h returns Ok, get(h, k)
\* returns v and hosts() contains h.
C1_ReadYourWrite ==
    (last.op = "set" /\ last.host # "" /\ last.ok) =>
        /\ get(root, last.host, last.key) = Ok(last.value)
        /\ hosts(root).ok
        /\ InSeq(last.host, hosts(root).val)

\* C2: set(h, k1, v1) followed by set(h, k2, v2) with k1 # k2 leaves
\* get(h, k1) = v1 and get(h, k2) = v2, and the second set adds exactly the
\* key k2 to the entry stored under h.
C2_SetIntoExistingEntry ==
    [][(/\ last.op = "set" /\ last.host # "" /\ last.ok
        /\ HostSetStep /\ last'.ok
        /\ last'.host = last.host /\ last'.key # last.key) =>
          /\ get(root', last.host, last.key) = Ok(last.value)
          /\ get(root', last.host, last'.key) = Ok(last'.value)
          /\ EntryOf(root', last.host).t = "table"
          /\ KeySet(EntryOf(root', last.host)) =
                KeySet(EntryOf(root, last.host)) \cup {last'.key}]_vars

\* C3: a set or unset_host on host h1 keeps every other host h2 of hosts()
\* in hosts() and keeps the result of get(h2, k) for every key k (stated
\* on Hosts tables whose entries are all tables).
C3_OtherHostsUntouched ==
    [][((HostSetStep \/ UnsetStep) /\ HostsAreTables(root)) =>
          \A h2 \in HostNames \ {last'.host} :
              (hosts(root).ok /\ InSeq(h2, hosts(root).val)) =>
                  /\ hosts(root').ok
                  /\ InSeq(h2, hosts(root').val)
                  /\ \A k \in AllKeys :
                        get(root', h2, k) = get(root, h2, k)]_vars

\* C4: set("", k, v) leaves hosts() and every get(h, k') on a host
\* unchanged, for every key k including "hosts"; set(h, k, v) on a host
\* leaves get("", k') unchanged for every root key k'.
C4_DisjointKeySpaces ==
    [][/\ RootSetStep =>
            /\ hosts(root') = hosts(root)
            /\ \A h \in HostNames, k \in AllKeys :
                  get(root', h, k) = get(root, h, k)
       /\ HostSetStep =>
            \A k \in AllKeys :
                HasKey(root, k) => get(root', "", k) = get(root, "", k)]_vars

\* C5: with exactly one host in the Hosts table, default_host() returns
\* that host, whatever its entry holds under `default`.
C5_SingleHostDefault ==
    (hosts(root).ok /\ Len(hosts(root).val) = 1) =>
        default_host(root) = Ok(hosts(root).val[1])

\* a single host whose entry holds default = "abc" was returned
C5_Witness ==
    /\ last.op = "default_host" /\ last.ok
    /\ hosts(root).ok /\ Len(hosts(root).val) = 1
    /\ last.out = hosts(root).val[1]
    /\ get_string_value(EntryOf(root, last.out), "default") = Ok("abc")

\* C6: with two or more hosts whose entries are tables without a `default`
\* key, default_host() fails with NoDefaultHost.
C6_NoDefaultHost ==
    LET ht == get_hosts_table(root)
    IN (/\ HostsAreTables(root) /\ Len(ht.val.items) >= 2
        /\ \A i \in 1..Len(ht.val.items) :
              ~HasKey(ht.val.items[i].item, "default")) =>
          default_host(root) = Err("NoDefaultHost", "")

\* C7: with two or more hosts of which at least one is flagged
\* default = "true", default_host() returns the first flagged host in table
\* order (stated on Hosts tables whose entries are all tables).
C7_FirstFlaggedHost ==
    LET ht == get_hosts_table(root)
        n == Len(ht.val.items)
        flagged(i) == Flagged(ht.val.items[i].item)
    IN (HostsAreTables(root) /\ n >= 2 /\ \E i \in 1..n : flagged(i)) =>
          default_host(root) =
              Ok(ht.val.items[CHOOSE i \in 1..n :
                    flagged(i) /\ \A j \in 1..(i - 1) : ~flagged(j)].key)

\* C8: without a "hosts" key hosts() is the empty sequence and
\* default_host() fails with NoHostsConfigured; with a "hosts" key that is
\* not a table hosts(), default_host() and get(h, k) on a host fail with
\* MalformedConfig; aliases() follows the same policy on "aliases".
C8_ShapePolicy ==
    /\ ~HasKey(root, "hosts") =>
          /\ hosts(root) = Ok(<<>>)
          /\ default_host(root) = Err("NoHostsConfigured", "")
    /\ (HasKey(root, "hosts") /\ ~as_table(TableGet(root, "hosts"))) =>
          /\ hosts(root) = Err("MalformedConfig", <<>>)
          /\ default_host(root) = Err("MalformedConfig", "")
          /\ \A h \in HostNames, k \in AllKeys :
                get(root, h, k) = Err("MalformedConfig", "")
    /\ ~HasKey(root, "aliases") => aliases(root) = Ok(NewTable)
    /\ (HasKey(root, "aliases") /\ ~as_table(TableGet(root, "aliases"))) =>
          aliases(root) = Err("MalformedConfig", NewTable)

\* get on a host failed on a "hosts" key that is not a table
C8_Witness ==
    /\ last.op = "get" /\ last.host # ""
    /\ HasKey(root, "hosts") /\ ~as_table(TableGet(root, "hosts"))
    /\ ~last.ok /\ last.err = "MalformedConfig"

\* C9: unset_host(h) of a host h that is not in hosts() returns Ok and
\* leaves hosts() as it was, and a second unset_host(h) changes nothing
\* more.
C9_UnsetIdempotent ==
    [][(/\ UnsetStep /\ hosts(root).ok
        /\ ~InSeq(last'.host, hosts(root).val)) =>
          /\ last'.ok
          /\ hosts(root') = hosts(root)
          /\ LET again == unset_host(root', last'.host)
             IN again.ok /\ hosts(again.root) = hosts(root')]_vars

\* unset_host succeeded on a host that was not among the hosts
C9_Witness ==
    /\ last.op = "unset_host" /\ last.host # "" /\ last.ok
    /\ last.pre.ok /\ last.pre.val # <<>>
    /\ ~InSeq(last.host, last.pre.val)

Lookup(space, k) ==
    IF ~HasKey(space, k) THEN Err("KeyNotFound", "")
    ELSE IF TableGet(space, k).t # "str" THEN Err("TypeMismatch", "")
    ELSE Ok(TableGet(space, k).v)

\* C11: get(hostname, key) with a non-empty hostname that names no Host
\* Entry fails with HostNotFound; otherwise the key is looked up in the
\* addressed key space, the root Document for the empty hostname and the
\* host's own entry (not the Hosts table) otherwise, and the call returns
\* KeyNotFound, TypeMismatch or the string accordingly.
C11_GetAddressedKeySpace ==
    (/\ last.op = "get"
     /\ last.host = "" \/ ~HasKey(root, "hosts") \/ HostsAreTables(root)) =>
        [ok |-> last.ok, val |-> last.out, err |-> last.err] =
            IF last.host = "" THEN Lookup(root, last.key)
            ELSE IF EntryOf(root, last.host) = None
                 THEN Err("HostNotFound", "")
                 ELSE Lookup(EntryOf(root, last.host), last.key)

\* C19: unset_host on a missing target is a strict no-op: for the empty
\* hostname, and for a non-empty hostname that is not in the Hosts table
\* (also when the root has no "hosts" key), it returns Ok and leaves the
\* whole root Document unchanged, so is_empty() and find_entry("hosts")
\* give the same before and after.
C19_UnsetMissingIsNoOp ==
    [][(/\ last'.op = "unset_host"
        /\ \/ last'.host = ""
           \/ ~HasKey(root, "hosts")
           \/ get_hosts_table(root).ok /\ EntryOf(root, last'.host) = None) =>
          /\ last'.ok
          /\ root' = root
          /\ is_empty(root') = is_empty(root)
          /\ find_entry(root', "hosts") = find_entry(root, "hosts")]_vars

\* the root "hosts" key is there and is not a table
MalformedHosts(r) == HasKey(r, "hosts") /\ ~as_table(TableGet(r, "hosts"))

\* C20: when the root "hosts" key is present but not a table, set(h, k, v)
\* and unset_host(h) with a non-empty h fail with MalformedConfig, the
\* host-creation fallback of set included, and leave the root Document
\* exactly as it was.
C20_FailureAtomicity ==
    [][(/\ last'.op \in {"set", "unset_host"} /\ last'.host # ""
        /\ MalformedHosts(root)) =>
          /\ ~last'.ok
          /\ last'.err = "MalformedConfig"
          /\ root' = root]_vars

\* set on a host failed on a malformed hosts key, which is still there
C20_Witness ==
    /\ last.op = "set" /\ last.host # ""
    /\ ~last.ok /\ last.err = "MalformedConfig"
    /\ MalformedHosts(root)

\* the keys a text has at position n of its key paths
KeysAt(txt, n) ==
    {AbsPath(txt, i)[n] :
        i \in {j \in 1..Len(txt) : /\ txt[j].t \in {"kv", "header"}
                                   /\ Len(AbsPath(txt, j)) >= n}}

SeqSet(q) == {q[i] : i \in 1..Len(q)}

\* C13: config_to_string() renders every root-level key except "hosts" and
\* never the "hosts" key; hosts_to_string() renders a document that holds
\* exactly a "hosts" table with one sub-table per host in hosts(); neither
\* call changes the Document.
C13_PersistedSplit ==
    [][/\ last'.op = "config_to_string" =>
            /\ last'.ok
            /\ KeysAt(last'.out, 1) = KeySet(root) \ {"hosts"}
            /\ root' = root
       /\ last'.op = "hosts_to_string" =>
            /\ last'.ok
            /\ KeysAt(last'.out, 1) \subseteq {"hosts"}
            /\ hosts(root).ok
            /\ KeysAt(last'.out, 2) = SeqSet(hosts(root).val)
            /\ root' = root]_vars

\* C13 as amended: config_to_string() renders every root-level key except
\* "hosts"; hosts_to_string() renders the Hosts table as a document of its
\* own, with one top-level entry per host in hosts() and no enclosing
\* "hosts" key, and fails with MalformedConfig when the "hosts" key is not
\* a table; neither call changes the Document.
C13_PersistedSplitAmended ==
    [][/\ last'.op = "config_to_string" =>
            /\ last'.ok
            /\ KeysAt(last'.out, 1) = KeySet(root) \ {"hosts"}
            /\ root' = root
       /\ last'.op = "hosts_to_string" =>
            /\ last'.ok = ~MalformedHosts(root)
            /\ ~last'.ok => last'.err = "MalformedConfig"
            /\ last'.ok => KeysAt(last'.out, 1) = SeqSet(hosts(root).val)
            /\ root' = root]_vars

\* the hosts file was rendered from a Document with two hosts and a root
\* setting besides
C13_Witness ==
    /\ last.op = "hosts_to_string" /\ last.ok
    /\ HasKey(root, "token")
    /\ hosts(root).ok /\ Len(hosts(root).val) = 2
    /\ KeysAt(last.out, 1) = HostNames

C15_WriteOrder ==
    [][last'.op = "write" =>
          /\ root' = root
          /\ last'.key = "config" =>
                /\ ~last'.ok /\ last'.err = "IoFailure"
                /\ files'.hosts = files.hosts
          /\ (last'.key = "hosts" \/ (last'.key = "none" /\ ~last'.ok)) =>
                /\ ~last'.ok
                /\ last'.err \in {"IoFailure", "MalformedConfig"}
                /\ files'.config = config_to_string(root).val
          /\ last'.ok =>
                /\ files'.config = config_to_string(root).val
                /\ files'.hosts = hosts_to_string(root).val]_vars

\* the write of the hosts file failed after edits of both parts: the config
\* file has the new setting, the hosts file lacks the new host
C15_Witness ==
    /\ last.op = "write" /\ last.key = "hosts" /\ ~last.ok
    /\ "editor" \in KeysAt(files.config, 1)
    /\ hosts(root).ok /\ InSeq("h2", hosts(root).val)
    /\ "h2" \notin KeysAt(files.hosts, 1)

\* the variable of the organization is set and not empty
Overridden == env.set /\ env.val # ""

\* C12: for an override-eligible key whose environment variable is set and
\* not empty, get("", key) through the Environment Override Layer returns
\* the value of the variable whatever the document holds, while get through
\* the wrapped File-Backed Config returns what the document holds; when the
\* variable is unset or empty the layer returns the result of the wrapped
\* config; the get of the layer never changes the wrapped document.
C12_EnvPrecedence ==
    [][(last'.op = "env_get" /\ last'.host = "" /\ last'.key \in EnvKeys) =>
          /\ root' = root
          /\ Overridden =>
                /\ last'.ok /\ last'.out = env.val
                /\ get(root, "", last'.key) = Lookup(root, last'.key)
          /\ ~Overridden =>
                /\ [ok |-> last'.ok, val |-> last'.out, err |-> last'.err] =
                      get(root, "", last'.key)
                /\ get(root, "", last'.key) = Lookup(root, last'.key)]_vars

\* the layer answered "acme" from the environment over a document that
\* holds organization = "other"
C12_Witness ==
    /\ last.op = "env_get" /\ last.key = "organization"
    /\ env = EnvVar(TRUE, "acme")
    /\ last.ok /\ last.out = "acme"
    /\ get(root, "", "organization") = Ok("other")

\* the fields create needs, in the order they are reported, with the error
\* that names each and the value of a field that was not given
RequiredFields ==
    << <<"instance", "[instance_name] required in non-interactive mode", "">>,
       <<"organization", "--organization,-o required in non-interactive mode", "">>,
       <<"project", "--project,-p required in non-interactive mode", "">>,
       <<"description", "--description,-D required in non-interactive mode", "">>,
       <<"cpus", "--cpus,-c required in non-interactive mode", 0>>,
       <<"memory", "--memory,m required in non-interactive mode", 0>> >>

\* the positions of the required fields that are empty or zero
Missing(a) ==
    {i \in 1..Len(RequiredFields) :
        a[RequiredFields[i][1]] = RequiredFields[i][3]}

\* C16: a non-interactive `instance create` with any of instance name,
\* organization, project, description, cpus, memory empty or zero fails
\* before it makes an API client or sends a request; the error names the
\* first missing field in the order instance name, organization, project,
\* description, cpus, memory; nothing is written to stdout.
C16_CreateRequiresFields ==
    (/\ cmd.kind = "create" /\ ~cmd.interactive
     /\ Missing(cmd.args) # {}) =>
        /\ ~cmd.client
        /\ cmd.requests = <<>>
        /\ cmd.prompts = <<>>
        /\ cmd.out = <<>>
        /\ cmd.pc \in {"start", "done"}
        /\ cmd.pc = "done" =>
              cmd.result = RequiredFields[Lowest(Missing(cmd.args))][2]

\* a non-interactive create without cpus and memory ended with the error
\* that names the cpus
C16_Witness ==
    /\ cmd.kind = "create" /\ ~cmd.interactive /\ cmd.pc = "done"
    /\ Missing(cmd.args) = {5, 6}
    /\ cmd.result = "--cpus,-c required in non-interactive mode"

\* C17: a non-interactive stop, reboot or delete without --confirm fails
\* with "--confirm required when not running interactively", and then no
\* API client is made and no request is sent; with --confirm no prompt is
\* shown and the run goes on to the request: it ends with the request sent
\* unless the API client could not be made.
C17_ConfirmRequired ==
    cmd.kind \in {"stop", "reboot", "delete"} =>
        /\ (~cmd.interactive /\ ~cmd.args.confirm) =>
              /\ ~cmd.client
              /\ cmd.requests = <<>>
              /\ cmd.pc \in {"start", "done"}
              /\ cmd.pc = "done" =>
                    cmd.result =
                        "--confirm required when not running interactively"
        /\ cmd.args.confirm =>
              /\ cmd.prompts = <<>>
              /\ cmd.result # "--confirm required when not running interactively"
              /\ cmd.pc = "done" =>
                    \/ ~cmd.client /\ cmd.result = "api client failed"
                    \/ /\ cmd.client /\ Len(cmd.requests) = 1
                       /\ cmd.requests[1].op = cmd.kind
                       /\ cmd.requests[1].name = cmd.args.instance

\* a non-interactive delete without --confirm was refused
C17_Witness ==
    /\ cmd.kind = "delete" /\ ~cmd.interactive /\ ~cmd.args.confirm
    /\ cmd.pc = "done"
    /\ cmd.result = "--confirm required when not running interactively"

\* the create request of a finished or failed run
CreateRequests ==
    {i \in 1..Len(cmd.requests) : cmd.requests[i].op = "create"}

\* C18: in every run of `instance create` that reaches the create request,
\* the hostname of the request is --hostname when that is not empty and is
\* otherwise the instance name of the request.
C18_HostnameDefault ==
    \A i \in CreateRequests :
        cmd.requests[i].hostname =
            IF cmd.args.hostname # "" THEN cmd.args.hostname
            ELSE cmd.requests[i].name

\* C18 as amended: the hostname of the create request is --hostname when
\* that is not empty; otherwise it is the hostname entered at the prompt
\* "Instance hostname:", which is shown when the instance name was prompted
\* for too; otherwise it is the instance name of the request.
C18_HostnameDefaultOrPrompted ==
    \A i \in CreateRequests :
        /\ cmd.requests[i].name = cmd.instance_name
        /\ cmd.requests[i].hostname =
              IF cmd.args.hostname # "" THEN cmd.args.hostname
              ELSE IF InSeq("Instance hostname:", cmd.prompts)
                   THEN cmd.hostname
                   ELSE cmd.requests[i].name
        /\ InSeq("Instance hostname:", cmd.prompts) =>
              /\ cmd.args.hostname = "" /\ cmd.args.instance = ""
              /\ cmd.hostname \in TextAnswers.hostname

\* a create without --hostname whose instance name was given sent the
\* instance name as hostname
C18_Witness ==
    /\ cmd.kind = "create" /\ cmd.pc = "done" /\ cmd.result = "ok"
    /\ cmd.args.hostname = "" /\ cmd.args.instance = "vm"
    /\ CreateRequests # {}
    /\ \A i \in CreateRequests : cmd.requests[i].hostname = "vm"

\* an interactive stop or reboot without --confirm
AsksToConfirm(c) ==
    c.kind \in {"stop", "reboot"} /\ c.interactive /\ ~c.args.confirm

\* C21: an interactive stop or reboot without --confirm shows the prompt
\* "Type <instance> to confirm", which accepts exactly the instance name it
\* shows, blanks around it aside; the request is sent only after such an
\* input was accepted; any other input is rejected and no request is sent.
C21_ConfirmAcceptsPrompted ==
    [][/\ (AsksToConfirm(cmd) /\ cmd.pc = "confirm"
           /\ cmd'.pc \in {"confirm", "request"}) =>
             /\ cmd'.prompts = <<confirm_prompt(cmd)>>
             /\ confirm_prompt(cmd)[2] = cmd.args.instance
             /\ cmd'.pc = "request" <=>
                    input_trim(cmd'.typed) = <<cmd.args.instance>>
             /\ cmd'.requests = <<>>
       /\ (AsksToConfirm(cmd) /\ cmd'.requests # <<>>) =>
             input_trim(cmd.typed) = <<cmd.args.instance>>]_vars

\* C22: an interactive `instance create` prompts for each of description,
\* memory and cpus that the command line left empty or zero and has the
\* answer before it sends the create request, whether or not the instance
\* name was given on the command line, so the request never carries an
\* empty description, or a zero memory or cpus that the user did not enter.
C22_CreatePromptsForMissing ==
    (cmd.kind = "create" /\ cmd.interactive) =>
        \A i \in CreateRequests :
            /\ cmd.args.description = "" =>
                  /\ InSeq("Instance description:", cmd.prompts)
                  /\ cmd.requests[i].description # ""
            /\ cmd.args.memory = 0 =>
                  InSeq("Instance memory:", cmd.prompts)
            /\ cmd.args.cpus = 0 =>
                  InSeq("Instance CPUs:", cmd.prompts)

====
